---- MODULE Spec2Model ----
(***************************************************************************)
(* A model of 03_web_as_data_ps/demo/webscrapping.py: the sequential       *)
(* script that scrapes four Penn State faculty pages, tabulates the        *)
(* scraped fields, pulls per-year citation counts and summarises them.     *)
(*                                                                         *)
(* Text is modelled as TLA+ strings, character by character: Ch(s, i) is   *)
(* Python's s[i-1].  A parsed page is a sequence of nodes in document      *)
(* order (preorder), each naming its parent, so that the XPath axes the     *)
(* script uses are computed on the tree and not assumed.                   *)
(***************************************************************************)
EXTENDS Integers, Sequences, FiniteSets, TLC

(***************************************************************************)
(* Characters and the string methods the script calls                      *)
(***************************************************************************)

\* The characters Python's \s and str.strip() treat as whitespace (the
\* ASCII ones; both use the same Unicode predicate).
Whitespace == {" ", "\t", "\n", "\r", "\f"}

\* The characters [^\n\r] excludes.
Newlines == {"\n", "\r"}

\* The class [A-Za-z0-9._%+-] of email_pattern.
LocalChars == {
    "A", "B", "C", "D", "E", "F", "G", "H", "I", "J", "K", "L", "M", "N",
    "O", "P", "Q", "R", "S", "T", "U", "V", "W", "X", "Y", "Z", "a", "b",
    "c", "d", "e", "f", "g", "h", "i", "j", "k", "l", "m", "n", "o", "p",
    "q", "r", "s", "t", "u", "v", "w", "x", "y", "z", "0", "1", "2", "3",
    "4", "5", "6", "7", "8", "9", ".", "_", "%", "+", "-"
    }

Ch(s, i) == SubSeq(s, i, i)

IsSpace(c) == c \in Whitespace

Min(a, b) == IF a <= b THEN a ELSE b

SetMax(S) == CHOOSE x \in S : \A y \in S : y <= x

SetMin(S) == CHOOSE x \in S : \A y \in S : x <= y

\* The length of the longest run of characters of class cls that starts at
\* position i of s (0 when s[i] is not in cls or i is past the end): it
\* ends at the first character outside cls, or with s.
RunOf(cls, s, i) ==
    LET stops == {j \in i..Len(s) : Ch(s, j) \notin cls}
    IN  IF i > Len(s) \/ Ch(s, i) \notin cls THEN 0
        ELSE IF stops = {} THEN Len(s) - i + 1
        ELSE SetMin(stops) - i

\* The same for the characters outside cls.
RunNotOf(cls, s, i) ==
    LET stops == {j \in i..Len(s) : Ch(s, j) \in cls}
    IN  IF i > Len(s) \/ Ch(s, i) \in cls THEN 0
        ELSE IF stops = {} THEN Len(s) - i + 1
        ELSE SetMin(stops) - i

\* The strings piece[lo], ..., piece[hi] concatenated, by halves.
RECURSIVE Cat(_, _, _)
Cat(piece, lo, hi) ==
    IF lo > hi THEN ""
    ELSE IF lo = hi THEN piece[lo]
    ELSE Cat(piece, lo, (lo + hi) \div 2)
         \o Cat(piece, (lo + hi) \div 2 + 1, hi)

\* s with every maximal run of characters of cls replaced by one space and
\* every other character kept: what a left-to-right replacement of cls+
\* by " " leaves.  A character of cls that follows another yields nothing.
Collapse(cls, s) ==
    Cat([i \in 1..Len(s) |->
            IF Ch(s, i) \notin cls THEN Ch(s, i)
            ELSE IF i > 1 /\ Ch(s, i - 1) \in cls THEN ""
            ELSE " "],
        1, Len(s))

\* Whether the literal lit occurs in s at position i.
StartsWithAt(s, i, lit) ==
    /\ i >= 1
    /\ i + Len(lit) - 1 <= Len(s)
    /\ SubSeq(s, i, i + Len(lit) - 1) = lit

\* str.strip(): s without its leading and trailing whitespace.
Strip(s) ==
    LET keep == {i \in 1..Len(s) : ~IsSpace(Ch(s, i))}
    IN  IF keep = {} THEN "" ELSE SubSeq(s, SetMin(keep), SetMax(keep))

\* A slip: "".join(parts), the separator forgotten.
JoinBare(sep, parts) == Cat(parts, 1, Len(parts))

\* sep.join(parts) for a list of strings: the separator before every part
\* but the first.
Join(sep, parts) ==
    Cat([k \in 1..Len(parts) |->
            IF k = 1 THEN parts[k] ELSE sep \o parts[k]],
        1, Len(parts))

\* A slip: re.sub(r"\s", " ", s), every whitespace character replaced.
ReSubEachSpace(s) ==
    Cat([i \in 1..Len(s) |-> IF Ch(s, i) \in Whitespace THEN " " ELSE Ch(s, i)],
        1, Len(s))

\* re.sub(r"\s+", " ", s): every maximal run of whitespace is replaced by
\* one space, every other character is kept.
ReSubSpaces(s) == Collapse(Whitespace, s)

(***************************************************************************)
(* The two regular expressions, matched as Python's backtracking engine    *)
(* matches them.  A match attempt at position i yields the position just   *)
(* past the match, or 0 when the pattern does not match at i.              *)
(***************************************************************************)

\* {0,120} of title_pattern (line 137).
TitleTailMax == 120

\* Lines 135-138.
title_pattern ==
    [kind      |-> "title",
     honorific |-> <<"Distinguished", "Liberal Arts", "Roy C.", "Arnold S.",
                     "James P.">>,
     rank      |-> "Associate",
     word      |-> "Professor",
     tail      |-> TitleTailMax]

\* Line 142.
email_pattern ==
    [kind |-> "email", local |-> LocalChars, domain |-> "@psu.edu"]

\* Professor[^\n\r]{0,120} at p: the literal, then greedily as many
\* characters other than \n and \r as there are, up to the maximum.
WordAt(pat, s, p) ==
    IF StartsWithAt(s, p, pat.word)
    THEN p + Len(pat.word)
         + Min(pat.tail, RunNotOf(Newlines, s, p + Len(pat.word)))
    ELSE 0

\* (?:Associate\s+)?Professor... at p: the optional group is tried first,
\* its \s+ greedy and giving back one character at a time, then skipped.
RankAt(pat, s, p) ==
    LET q    == p + Len(pat.rank)
        run  == IF StartsWithAt(s, p, pat.rank)
                THEN RunOf(Whitespace, s, q) ELSE 0
        good == {m \in 1..run : WordAt(pat, s, q + m) # 0}
    IN  IF good # {} THEN WordAt(pat, s, q + SetMax(good))
        ELSE WordAt(pat, s, p)

\* \s*(?:Associate\s+)?Professor... at j: \s* greedy, giving back.
SpacesAt(pat, s, j) ==
    LET run  == RunOf(Whitespace, s, j)
        good == {k \in 0..run : RankAt(pat, s, j + k) # 0}
    IN  IF good # {} THEN RankAt(pat, s, j + SetMax(good)) ELSE 0

\* The whole title pattern at i: the alternatives of the optional first
\* group in their written order, then the group skipped.
TitleMatchAt(pat, s, i) ==
    LET alts == {a \in 1..Len(pat.honorific) :
                   /\ StartsWithAt(s, i, pat.honorific[a])
                   /\ SpacesAt(pat, s, i + Len(pat.honorific[a])) # 0}
    IN  IF alts # {}
        THEN SpacesAt(pat, s, i + Len(pat.honorific[SetMin(alts)]))
        ELSE SpacesAt(pat, s, i)

\* [A-Za-z0-9._%+-]+@psu\.edu at i: the class greedy, giving back.
EmailMatchAt(pat, s, i) ==
    LET run  == RunOf(pat.local, s, i)
        good == {k \in 1..run : StartsWithAt(s, i + k, pat.domain)}
    IN  IF good # {} THEN i + SetMax(good) + Len(pat.domain) ELSE 0

MatchAt(pat, s, i) ==
    IF pat.kind = "title" THEN TitleMatchAt(pat, s, i)
    ELSE EmailMatchAt(pat, s, i)

\* re.findall(pat, s) from position pos on: the scan moves right to the
\* first position where the pattern matches, takes the match, and goes on
\* from its end (neither pattern has a group or an empty match).
RECURSIVE FindAllFrom(_, _, _)
FindAllFrom(pat, s, pos) ==
    LET starts == {i \in pos..Len(s) : MatchAt(pat, s, i) # 0}
    IN  IF starts = {} THEN <<>>
        ELSE LET i == SetMin(starts)
                 e == MatchAt(pat, s, i)
             IN  <<SubSeq(s, i, e - 1)>> \o FindAllFrom(pat, s, e)

FindAll(pat, s) == FindAllFrom(pat, s, 1)

\* A slip: matches[-1:], the last match instead of the first.
LastOnly(matches) ==
    IF matches = <<>> THEN <<>> ELSE <<matches[Len(matches)]>>

\* A slip: the slice forgotten, every match kept.
AllMatches(matches) == matches

\* matches[:1]
FirstOnly(matches) == SubSeq(matches, 1, Min(1, Len(matches)))

\* A slip: str(re.search(pat, text)), which is "None" without a match.
FirstMatchOrNone(pat, s) ==
    IF FindAll(pat, s) = <<>> THEN "None"
    ELSE Strip(Join(" ", FirstOnly(FindAll(pat, s))))

\* Lines 139 and 143: " ".join(re.findall(pat, text)[:1]).strip()
FirstMatch(pat, s) == Strip(Join(" ", FirstOnly(FindAll(pat, s))))

(***************************************************************************)
(* Parsed pages and the XPath queries                                      *)
(*                                                                         *)
(* A tree (what html.fromstring returns) is the sequence of the nodes      *)
(* under <body> in document order.  Node i is                              *)
(*   [par |-> its parent's index (0: <body>), tag |-> its element name or  *)
(*    "#text", txt |-> the characters of a text node].                     *)
(***************************************************************************)

TextTag == "#text"

\* The characters XPath's normalize-space() treats as whitespace.
XmlSpace == {" ", "\t", "\n", "\r"}

Nodes(tree) == 1..Len(tree)

IsText(tree, i) == tree[i].tag = TextTag

\* Whether node i lies below node n (n = 0: below <body>, every node).
RECURSIVE IsBelow(_, _, _)
IsBelow(tree, i, n) ==
    \/ tree[i].par = n
    \/ tree[i].par # 0 /\ IsBelow(tree, tree[i].par, n)

\* The strings of a set of text nodes, in document order.
TextsOf(tree, set) ==
    LET at == SelectSeq([i \in 1..Len(tree) |-> i], LAMBDA i : i \in set)
    IN  [k \in 1..Len(at) |-> tree[at[k]].txt]

\* //text() below each node of ctx: the text nodes that descend from it.
DescendantText(tree, ctx) ==
    {i \in Nodes(tree) : IsText(tree, i) /\ \E n \in ctx : IsBelow(tree, i, n)}

\* The XPath string-value of element n: its descendant text, concatenated.
StringValue(tree, n) == Join("", TextsOf(tree, DescendantText(tree, {n})))

\* normalize-space(): XML whitespace runs collapsed to one space, ends cut.
NormalizeSpace(s) ==
    LET c    == Collapse(XmlSpace, s)
        keep == {i \in 1..Len(c) : Ch(c, i) # " "}
    IN  IF keep = {} THEN "" ELSE SubSeq(c, SetMin(keep), SetMax(keep))

\* //tag[normalize-space()='label']: the elements of that name, anywhere in
\* the page, whose normalized string-value is the label.
Headings(tree, tag, label) ==
    {h \in Nodes(tree) :
        tree[h].tag = tag /\ NormalizeSpace(StringValue(tree, h)) = label}

\* The following siblings of n that are elements passing the name test
\* (tag "*": any element).
FollowingSiblings(tree, n, tag) ==
    {i \in Nodes(tree) :
        /\ i > n
        /\ tree[i].par = tree[n].par
        /\ ~IsText(tree, i)
        /\ tag = "*" \/ tree[i].tag = tag}

\* following-sibling::tag[1] from each node of ctx: the nearest one.
FirstFollowingSibling(tree, ctx, tag) ==
    {i \in Nodes(tree) :
        \E n \in ctx :
            /\ FollowingSiblings(tree, n, tag) # {}
            /\ i = SetMin(FollowingSiblings(tree, n, tag))}

\* /tag from each node of ctx: the child elements of that name.
ChildElements(tree, ctx, tag) ==
    {i \in Nodes(tree) : tree[i].tag = tag /\ tree[i].par \in ctx}

\* //body//text() (line 131): every text node of the page.
BodyText(tree) ==
    TextsOf(tree, {i \in Nodes(tree) : IsText(tree, i)})

\* A slip: following-sibling::ul without the [1], every later list taken.
AreasQueryAllLists(tree) ==
    LET h2 == Headings(tree, "h2", "Areas of Interest")
        ul == UNION {FollowingSiblings(tree, n, "ul") : n \in h2}
        li == ChildElements(tree, ul, "li")
    IN  TextsOf(tree, DescendantText(tree, li))

\* Lines 146-148:
\* //h2[normalize-space()='Areas of Interest']/following-sibling::ul[1]/li//text()
AreasQuery(tree) ==
    LET h2 == Headings(tree, "h2", "Areas of Interest")
        ul == FirstFollowingSibling(tree, h2, "ul")
        li == ChildElements(tree, ul, "li")
    IN  TextsOf(tree, DescendantText(tree, li))

\* One operand of the union of lines 152-155:
\* //tag[normalize-space()='Research Interests']/following-sibling::*[1]//text()
ResearchNodes(tree, tag) ==
    DescendantText(tree,
        FirstFollowingSibling(tree,
            Headings(tree, tag, "Research Interests"), "*"))

\* A slip: two queries whose results are appended, not one union.
ResearchQueryAppended(tree) ==
    TextsOf(tree, ResearchNodes(tree, "h2"))
    \o TextsOf(tree, ResearchNodes(tree, "h3"))

\* Lines 152-155: the union of the h2 and the h3 operand, a node set, which
\* the XPath engine returns in document order.
ResearchQuery(tree) ==
    TextsOf(tree, ResearchNodes(tree, "h2") \cup ResearchNodes(tree, "h3"))

\* list(filter(None, map(str.strip, texts))) (lines 149 and 156).
StripNonEmpty(texts) ==
    SelectSeq([k \in 1..Len(texts) |-> Strip(texts[k])], LAMBDA t : t # "")

(***************************************************************************)
(* Bounded inputs: pages                                                   *)
(***************************************************************************)

\* The most top-level pieces of markup a generated page is made of.
MaxBlocks == 3

\* The most text nodes of a generated text-only page.
MaxNodes == 3

E(par, tag) == [par |-> par, tag |-> tag, txt |-> ""]

T(par, txt) == [par |-> par, tag |-> TextTag, txt |-> txt]

\* Pieces of markup: each a subtree (or a bare text node) whose root hangs
\* under <body>; parents are relative to the piece.
Blocks == {
    \* <h2>Areas of Interest</h2>
    <<E(0, "h2"), T(1, "Areas of Interest")>>,
    \* <h2>\n Areas\tof <span>Interest</span>\n</h2>
    <<E(0, "h2"), T(1, "\n Areas\tof "), E(1, "span"), T(3, "Interest"),
      T(1, "\n")>>,
    \* <h3>Areas of Interest</h3>
    <<E(0, "h3"), T(1, "Areas of Interest")>>,
    \* <h2>Research Interests</h2>
    <<E(0, "h2"), T(1, "Research Interests")>>,
    \* <h3> Research  Interests</h3>
    <<E(0, "h3"), T(1, " Research  Interests")>>,
    \* <ul>\n<li> Voting </li>\n<li>Elections</li><li>  </li></ul>
    <<E(0, "ul"), T(1, "\n"), E(1, "li"), T(3, " Voting "), T(1, "\n"),
      E(1, "li"), T(6, "Elections"), E(1, "li"), T(8, "  ")>>,
    \* <ul><li>Comparative <a>Politics</a></li><li><a>Methods</a></li></ul>
    <<E(0, "ul"), E(1, "li"), T(2, "Comparative "), E(2, "a"),
      T(4, "Politics"), E(1, "li"), E(6, "a"), T(7, "Methods")>>,
    \* <p>Game theory</p>
    <<E(0, "p"), T(1, "Game theory")>>,
    \* <div><h3>Research Interests</h3><p>Networks</p></div>
    <<E(0, "div"), E(1, "h3"), T(2, "Research Interests"), E(1, "p"),
      T(4, "Networks")>>,
    \* whitespace between two elements
    <<T(0, "\n ")>>
    }

\* A piece placed after `before` nodes: its parents shifted accordingly.
Place(block, before) ==
    [i \in 1..Len(block) |->
        [block[i] EXCEPT !.par = IF @ = 0 THEN 0 ELSE @ + before]]

\* The pages of exactly n pieces.
RECURSIVE PagesOf(_)
PagesOf(n) ==
    IF n = 0 THEN {<<>>}
    ELSE {page \o Place(b, Len(page)) : page \in PagesOf(n - 1), b \in Blocks}

StructPages == UNION {PagesOf(n) : n \in 0..MaxBlocks}

\* 123 characters, none of them a line break: longer than the tail the
\* title pattern takes.
Filler ==
    "of Political Science and Social Data Analytics and Director of "
    \o "Graduate Studies in the Department of Political Science  PSU"

\* The strings a text node of a text-only page holds.
Fragments == {
    "Distinguished", "Roy C.", "Associate", "Professor",
    "Professor of Things\n", "\t\n ", "jane@psu.edu", "m.r+g-19@psu.edu;",
    "@psu.edu", Filler
    }

\* The pages of exactly n text nodes directly under <body>.
RECURSIVE TextPagesOf(_)
TextPagesOf(n) ==
    IF n = 0 THEN {<<>>}
    ELSE {page \o <<T(0, f)>> : page \in TextPagesOf(n - 1), f \in Fragments}

\* The text-only pages: up to MaxNodes text nodes, the long one at most
\* once.
TextPages ==
    {page \in UNION {TextPagesOf(n) : n \in 0..MaxNodes} :
        Cardinality({i \in 1..Len(page) : page[i].txt = Filler}) <= 1}

(***************************************************************************)
(* The four subjects (lines 102-116, 337-340)                              *)
(***************************************************************************)

Subjects == <<"matt", "sona", "derek", "jeremy">>

SubjectSet == {Subjects[k] : k \in 1..Len(Subjects)}

matt_name == "Matt Golder"

sona_name == "Sona N. Golder"

derek_name == "Derek Kreager"

jeremy_name == "Jeremy Staff"

NameOf(s) ==
    CASE s = "matt"   -> matt_name
      [] s = "sona"   -> sona_name
      [] s = "derek"  -> derek_name
      [] s = "jeremy" -> jeremy_name

DeptOf(s) ==
    CASE s = "matt"   -> "Political Science (College of the Liberal Arts)"
      [] s = "sona"   -> "Political Science (College of the Liberal Arts)"
      [] s = "derek"  -> "Sociology & Criminology (College of the Liberal Arts)"
      [] s = "jeremy" -> "Sociology & Criminology (College of the Liberal Arts)"

UrlOf(s) ==
    CASE s = "matt"   -> "https://polisci.la.psu.edu/people/mrg19/"
      [] s = "sona"   -> "https://polisci.la.psu.edu/people/sng11/"
      [] s = "derek"  -> "https://sociology.la.psu.edu/people/derek-kreager/"
      [] s = "jeremy" -> "https://sociology.la.psu.edu/people/jeremy-staff/"

(***************************************************************************)
(* The script: one statement after another                                 *)
(***************************************************************************)

Stmt(op, who) == [op |-> op, who |-> who]

\* The statements of one scraping block (lines 125-174 for Matt, repeated
\* at 180-212, 218-250 and 256-288), in their order.
ScrapeOps ==
    <<"fetch", "parse", "text_join", "text_norm", "title", "email", "areas",
      "research", "combine", "count", "row">>

ScrapeBlock(s) == [k \in 1..Len(ScrapeOps) |-> Stmt(ScrapeOps[k], s)]

\* One statement repeated for the four subjects in turn.
ForEach(op) == [k \in 1..Len(Subjects) |-> Stmt(op, Subjects[k])]

\* Lines 346-356: resolve then populate, subject by subject.
ScholarBlock(s) == <<Stmt("resolve", s), Stmt("fill", s)>>

\* The whole script, top to bottom.
Program ==
    <<Stmt("wiki", "-")>>
    \o ScrapeBlock("matt") \o ScrapeBlock("sona")
    \o ScrapeBlock("derek") \o ScrapeBlock("jeremy")
    \o <<Stmt("concat_profiles", "-"), Stmt("barchart", "-")>>
    \o ScholarBlock("matt") \o ScholarBlock("sona")
    \o ScholarBlock("derek") \o ScholarBlock("jeremy")
    \o ForEach("profile") \o ForEach("pubs") \o ForEach("ct")
    \o <<Stmt("concat_ct", "-"), Stmt("linechart", "-"), Stmt("median", "-")>>

\* The position of a statement in the script.
PosOf(op, who) == CHOOSE k \in 1..Len(Program) : Program[k] = Stmt(op, who)

VARIABLES
    pc,                      \* the position of the next statement to run
    raised,                  \* an exception went unhandled: the run is over
    html,                    \* matt_html, sona_html, ... by subject
    tree,                    \* matt_tree, ...
    text,                    \* matt_text, ...
    title,                   \* matt_title, ...
    email,                   \* matt_email, ...
    areas,                   \* matt_areas, ...
    research,                \* matt_research, ...
    interests_list,          \* matt_interests_list, ...
    interests,               \* matt_interests, ...
    n_interest_items,        \* matt_n_interest_items, ...
    row,                     \* matt_row, ...: a table is a sequence of rows
    scraped_profiles,
    scraped_profiles_sorted,
    author,                  \* matt_author, ...
    ct,                      \* matt_ct, ...
    citation_df,
    median_cites,
    outputs                  \* what was printed or plotted so far, in order

scrapeVars ==
    <<html, tree, text, title, email, areas, research, interests_list,
      interests, n_interest_items, row>>

tableVars == <<scraped_profiles, scraped_profiles_sorted>>

citeVars == <<author, ct, citation_df, median_cites>>

vars == <<pc, raised, scrapeVars, tableVars, citeVars, outputs>>

\* Statement op of subject who is the next one, and the run is alive.
At(op, who) ==
    /\ ~raised
    /\ pc <= Len(Program)
    /\ Program[pc] = Stmt(op, who)

\* The statement ran to its end.
Advance == pc' = pc + 1 /\ raised' = FALSE

\* A slip: the statement wrapped in try/except, the failure skipped over.
Swallow == pc' = pc + 1 /\ raised' = FALSE

\* The statement raised: nothing catches it, the interpreter exits.
Raise == pc' = pc /\ raised' = TRUE

Set(f, s, v) == [f EXCEPT ![s] = v]

(***************************************************************************)
(* Tables: a DataFrame is the sequence of its rows, each a record          *)
(***************************************************************************)

\* The one-to-one maps of 1..n onto itself.
Orderings(n) ==
    {f \in [1..n -> 1..n] : \A i, j \in 1..n : i # j => f[i] # f[j]}

\* A slip: the sorted frame dropped, the rows left as they were.
Unsorted(df, key) == {df}

\* df.sort_values(key): the rows in ascending order of the column.  The
\* default sort is not stable, so rows with equal keys may come out in
\* any order: every ascending arrangement is an outcome.
SortValues(df, key) ==
    {[i \in 1..Len(df) |-> df[f[i]]] : f \in
        {g \in Orderings(Len(df)) :
            \A i \in 1..(Len(df) - 1) : df[g[i]][key] <= df[g[i + 1]][key]}}

\* pd.concat(frames, ignore_index=True): the frames' rows, frame by frame.
RECURSIVE Concat(_)
Concat(frames) ==
    IF frames = <<>> THEN <<>> ELSE frames[1] \o Concat(Tail(frames))

\* The four per-subject frames of f, in the order the script lists them.
InSubjectOrder(f) == [k \in 1..Len(Subjects) |-> f[Subjects[k]]]

\* A slip: a pasted block whose url was not renamed.
ProfileRowPasted(s, t, e, i, n) ==
    <<[name              |-> NameOf(s),
       department        |-> DeptOf(s),
       url               |-> UrlOf("matt"),
       scraped_title     |-> t,
       scraped_email     |-> e,
       scraped_interests |-> i,
       n_interest_items  |-> n]>>

\* Lines 166-174: the one-row frame of a subject.
ProfileRow(s, t, e, i, n) ==
    <<[name              |-> NameOf(s),
       department        |-> DeptOf(s),
       url               |-> UrlOf(s),
       scraped_title     |-> t,
       scraped_email     |-> e,
       scraped_interests |-> i,
       n_interest_items  |-> n]>>

\* pd.DataFrame(list(d.items()), columns=["year", "cites"]) with the name
\* column added (lines 437-438): one row per item, in the dict's order.
CiteRows(items, name) ==
    [k \in 1..Len(items) |->
        [year |-> items[k][1], cites |-> items[k][2], name |-> name]]

\* The values of a sequence of integers in ascending order.
RECURSIVE SortInts(_)
SortInts(vals) ==
    IF vals = <<>> THEN <<>>
    ELSE LET m == SetMin({vals[k] : k \in 1..Len(vals)})
             j == SetMin({k \in 1..Len(vals) : vals[k] = m})
         IN  <<m>> \o SortInts(SubSeq(vals, 1, j - 1)
                               \o SubSeq(vals, j + 1, Len(vals)))

\* A slip: the middle of the values as they come, the sort forgotten.
MiddleTimes2(vals) ==
    LET n == Len(vals)
    IN  IF n % 2 = 1 THEN 2 * vals[(n + 1) \div 2]
        ELSE vals[n \div 2] + vals[n \div 2 + 1]

\* Twice the median of a non-empty list of integers (twice, to stay in the
\* integers: the median of an even number of values is the mean of the two
\* middle ones).
MedianTimes2(vals) ==
    LET sorted == SortInts(vals)
        n      == Len(sorted)
    IN  IF n % 2 = 1 THEN 2 * sorted[(n + 1) \div 2]
        ELSE sorted[n \div 2] + sorted[n \div 2 + 1]

\* The group keys of groupby("name") come out sorted: the four names in
\* ascending string order.
NameOrder == <<derek_name, jeremy_name, matt_name, sona_name>>

\* The cites column of the rows of df whose name is the given one.
RECURSIVE CitesOf(_, _)
CitesOf(df, name) ==
    IF df = <<>> THEN <<>>
    ELSE (IF df[1].name = name THEN <<df[1].cites>> ELSE <<>>)
         \o CitesOf(Tail(df), name)

\* Lines 481-486: groupby("name", as_index=False)["cites"].median(): one
\* row per name that occurs in df, in key order.
RECURSIVE GroupMedianFrom(_, _)
GroupMedianFrom(df, k) ==
    IF k > Len(NameOrder) THEN <<>>
    ELSE (IF CitesOf(df, NameOrder[k]) = <<>> THEN <<>>
          ELSE <<[name |-> NameOrder[k],
                  median_cites_x2 |->
                      MedianTimes2(CitesOf(df, NameOrder[k]))]>>)
         \o GroupMedianFrom(df, k + 1)

GroupMedian(df) == GroupMedianFrom(df, 1)

(***************************************************************************)
(* Bounded inputs: what the network returns                                *)
(***************************************************************************)

\* What requests.get(...).text holds: the markup, here as the nodes it
\* parses to, or nothing at all.
Markup(page) == [blank |-> FALSE, body |-> page]

BlankMarkup == [blank |-> TRUE, body |-> <<>>]

\* The pages a whole run may be served: one with a title, an address and
\* an "Areas of Interest" list, one with a "Research Interests" paragraph,
\* one with none of these.
RunPages == {
    <<T(0, "Jane Roe\n"), T(0, " Distinguished Professor of Things"),
      T(0, "jane@psu.edu"), E(0, "h2"), T(4, "Areas of Interest"),
      E(0, "ul"), E(6, "li"), T(7, "Voting"), E(6, "li"),
      T(9, " Elections ")>>,
    <<T(0, "Associate Professor"), T(0, "sng11@psu.edu"), E(0, "h3"),
      T(3, "Research Interests"), E(0, "p"), T(5, "Game theory")>>,
    <<E(0, "p"), T(1, "Page not found")>>
    }

\* The per-year citation mappings a whole run may be served: a dict is the
\* sequence of its (year, count) items in insertion order.
RunCites == {<<>>, <<<<2021, 4>>, <<2019, 2>>, <<2020, 9>>>>}

\* The most (year, count) items the four mappings hold together when the
\* citation steps are checked on their own.
MaxEntries == 3

CiteYears == {2019, 2020, 2021}

CiteCounts == {2, 4, 9}

\* The mappings of exactly n items: distinct years, in any insertion order.
ItemSeqsOf(n) ==
    {q \in [1..n -> CiteYears \X CiteCounts] :
        \A i, j \in 1..n : i # j => q[i][1] # q[j][1]}

\* How many items each subject's mapping holds.
EntrySplits ==
    LET cap == Min(MaxEntries, Cardinality(CiteYears))
    IN  {l \in [1..Len(Subjects) -> 0..cap] :
            l[1] + l[2] + l[3] + l[4] <= MaxEntries}

(***************************************************************************)
(* The statements                                                          *)
(***************************************************************************)

\* Lines 69-89: the Wikipedia warm-up.  read_html raises when the page or
\* its infobox cannot be had; the cleaned table is used by nothing later.
Wiki ==
    /\ At("wiki", "-")
    /\ \/ Advance
       \/ Raise
    /\ UNCHANGED <<scrapeVars, tableVars, citeVars, outputs>>

\* Line 125 (180, 218, 256): requests.get(url, headers=headers).text
Fetch(s) ==
    /\ At("fetch", s)
    /\ \/ /\ \E m \in {Markup(page) : page \in RunPages} \cup {BlankMarkup} :
                html' = Set(html, s, m)
          /\ Advance
       \/ /\ Raise
          /\ UNCHANGED html
    /\ UNCHANGED <<tree, text, title, email, areas, research, interests_list,
                   interests, n_interest_items, row>>
    /\ UNCHANGED <<tableVars, citeVars, outputs>>

\* Line 128: html.fromstring(matt_html); an empty document raises.
Parse(s) ==
    /\ At("parse", s)
    /\ \/ /\ ~html[s].blank
          /\ tree' = Set(tree, s, html[s].body)
          /\ Advance
       \/ /\ html[s].blank
          /\ Raise
          /\ UNCHANGED tree
    /\ UNCHANGED <<html, text, title, email, areas, research, interests_list,
                   interests, n_interest_items, row>>
    /\ UNCHANGED <<tableVars, citeVars, outputs>>

\* Line 131: " ".join(matt_tree.xpath("//body//text()"))
TextJoin(s) ==
    /\ At("text_join", s)
    /\ text' = Set(text, s, Join(" ", BodyText(tree[s])))
    /\ Advance
    /\ UNCHANGED <<html, tree, title, email, areas, research, interests_list,
                   interests, n_interest_items, row>>
    /\ UNCHANGED <<tableVars, citeVars, outputs>>

\* Line 132: re.sub(r"\s+", " ", matt_text).strip()
TextNorm(s) ==
    /\ At("text_norm", s)
    /\ text' = Set(text, s, Strip(ReSubSpaces(text[s])))
    /\ Advance
    /\ UNCHANGED <<html, tree, title, email, areas, research, interests_list,
                   interests, n_interest_items, row>>
    /\ UNCHANGED <<tableVars, citeVars, outputs>>

\* Line 139.
Title(s) ==
    /\ At("title", s)
    /\ title' = Set(title, s, FirstMatch(title_pattern, text[s]))
    /\ Advance
    /\ UNCHANGED <<html, tree, text, email, areas, research, interests_list,
                   interests, n_interest_items, row>>
    /\ UNCHANGED <<tableVars, citeVars, outputs>>

\* Line 143.
Email(s) ==
    /\ At("email", s)
    /\ email' = Set(email, s, FirstMatch(email_pattern, text[s]))
    /\ Advance
    /\ UNCHANGED <<html, tree, text, title, areas, research, interests_list,
                   interests, n_interest_items, row>>
    /\ UNCHANGED <<tableVars, citeVars, outputs>>

\* Lines 146-149.
Areas(s) ==
    /\ At("areas", s)
    /\ areas' = Set(areas, s, StripNonEmpty(AreasQuery(tree[s])))
    /\ Advance
    /\ UNCHANGED <<html, tree, text, title, email, research, interests_list,
                   interests, n_interest_items, row>>
    /\ UNCHANGED <<tableVars, citeVars, outputs>>

\* Lines 152-156.
Research(s) ==
    /\ At("research", s)
    /\ research' = Set(research, s, StripNonEmpty(ResearchQuery(tree[s])))
    /\ Advance
    /\ UNCHANGED <<html, tree, text, title, email, areas, interests_list,
                   interests, n_interest_items, row>>
    /\ UNCHANGED <<tableVars, citeVars, outputs>>

\* Line 159: matt_areas + matt_research
CombineLists(a, r) == a \o r

\* Lines 159-160.
Combine(s) ==
    /\ At("combine", s)
    /\ interests_list' =
           Set(interests_list, s, CombineLists(areas[s], research[s]))
    /\ interests' =
           Set(interests, s, Join("; ", CombineLists(areas[s], research[s])))
    /\ Advance
    /\ UNCHANGED <<html, tree, text, title, email, areas, research,
                   n_interest_items, row>>
    /\ UNCHANGED <<tableVars, citeVars, outputs>>

\* Line 163.
Count(s) ==
    /\ At("count", s)
    /\ n_interest_items' = Set(n_interest_items, s, Len(interests_list[s]))
    /\ Advance
    /\ UNCHANGED <<html, tree, text, title, email, areas, research,
                   interests_list, interests, row>>
    /\ UNCHANGED <<tableVars, citeVars, outputs>>

\* Lines 166-174.
Row(s) ==
    /\ At("row", s)
    /\ row' = Set(row, s, ProfileRow(s, title[s], email[s], interests[s],
                                     n_interest_items[s]))
    /\ Advance
    /\ UNCHANGED <<html, tree, text, title, email, areas, research,
                   interests_list, interests, n_interest_items>>
    /\ UNCHANGED <<tableVars, citeVars, outputs>>

\* Lines 294-299: the four rows concatenated, and printed.
ConcatProfiles ==
    /\ At("concat_profiles", "-")
    /\ scraped_profiles' = Concat(InSubjectOrder(row))
    /\ outputs' = Append(outputs, "scraped_profiles")
    /\ Advance
    /\ UNCHANGED <<scrapeVars, scraped_profiles_sorted, citeVars>>

\* Lines 307-315: a sorted copy, and the bar chart drawn from it.
BarChart ==
    /\ At("barchart", "-")
    /\ scraped_profiles_sorted'
           \in SortValues(scraped_profiles, "n_interest_items")
    /\ outputs' = Append(outputs, "barchart")
    /\ Advance
    /\ UNCHANGED <<scrapeVars, scraped_profiles, citeVars>>

\* Line 346 (349, 352, 355): scholarly.search_author_id(id)
Resolve(s) ==
    /\ At("resolve", s)
    /\ \/ /\ author' = Set(author, s, [cites_per_year |-> <<>>])
          /\ Advance
       \/ /\ Raise
          /\ UNCHANGED author
    /\ UNCHANGED <<scrapeVars, tableVars, ct, citation_df, median_cites,
                   outputs>>

\* Line 347 (350, 353, 356): scholarly.fill(author, sections=[...])
Fill(s) ==
    /\ At("fill", s)
    /\ \/ /\ \E items \in RunCites :
                author' = Set(author, s, [cites_per_year |-> items])
          /\ Advance
       \/ /\ Raise
          /\ UNCHANGED author
    /\ UNCHANGED <<scrapeVars, tableVars, ct, citation_df, median_cites,
                   outputs>>

\* Lines 363-371 (373-401): the profile summary, read with defaults.
Profile(s) ==
    /\ At("profile", s)
    /\ outputs' = Append(outputs, "profile " \o s)
    /\ Advance
    /\ UNCHANGED <<scrapeVars, tableVars, citeVars>>

\* Lines 414-416 (418-428): the first publications; selecting the two bib
\* columns raises when the publications returned do not have them.
Pubs(s) ==
    /\ At("pubs", s)
    /\ \/ /\ outputs' = Append(outputs, "pubs " \o s)
          /\ Advance
       \/ /\ Raise
          /\ UNCHANGED outputs
    /\ UNCHANGED <<scrapeVars, tableVars, citeVars>>

\* Lines 437-439 (441-451): the subject's citation rows, sorted by year.
Ct(s) ==
    /\ At("ct", s)
    /\ \E sorted \in SortValues(CiteRows(author[s].cites_per_year, NameOf(s)),
                                "year") :
           ct' = Set(ct, s, sorted)
    /\ Advance
    /\ UNCHANGED <<scrapeVars, tableVars, author, citation_df, median_cites,
                   outputs>>

\* Lines 453-456.
ConcatCt ==
    /\ At("concat_ct", "-")
    /\ citation_df' = Concat(InSubjectOrder(ct))
    /\ outputs' = Append(outputs, "citation_df")
    /\ Advance
    /\ UNCHANGED <<scrapeVars, tableVars, author, ct, median_cites>>

\* Lines 464-475.
LineChart ==
    /\ At("linechart", "-")
    /\ outputs' = Append(outputs, "linechart")
    /\ Advance
    /\ UNCHANGED <<scrapeVars, tableVars, citeVars>>

\* Lines 481-489.
Median ==
    /\ At("median", "-")
    /\ median_cites' = GroupMedian(citation_df)
    /\ outputs' = Append(outputs, "median_cites")
    /\ Advance
    /\ UNCHANGED <<scrapeVars, tableVars, author, ct, citation_df>>

(***************************************************************************)
(* Specifications                                                          *)
(***************************************************************************)

Unset(v) == [s \in SubjectSet |-> v]

\* Everything a run has not assigned yet.
Blank ==
    /\ raised = FALSE
    /\ html = Unset(BlankMarkup)
    /\ tree = Unset(<<>>)
    /\ text = Unset("")
    /\ title = Unset("")
    /\ email = Unset("")
    /\ areas = Unset(<<>>)
    /\ research = Unset(<<>>)
    /\ interests_list = Unset(<<>>)
    /\ interests = Unset("")
    /\ n_interest_items = Unset(0)
    /\ row = Unset(<<>>)
    /\ scraped_profiles = <<>>
    /\ scraped_profiles_sorted = <<>>
    /\ author = Unset([cites_per_year |-> <<>>])
    /\ ct = Unset(<<>>)
    /\ citation_df = <<>>
    /\ median_cites = <<>>
    /\ outputs = <<>>

ScrapeStep(s) ==
    \/ TextJoin(s)
    \/ TextNorm(s)
    \/ Title(s)
    \/ Email(s)
    \/ Areas(s)
    \/ Research(s)
    \/ Combine(s)
    \/ Count(s)
    \/ Row(s)

CiteStep ==
    \/ \E s \in SubjectSet : Ct(s)
    \/ ConcatCt
    \/ LineChart
    \/ Median

\* The whole run, from the first line.
Init ==
    /\ pc = 1
    /\ Blank

Next ==
    \/ Wiki
    \/ \E s \in SubjectSet : Fetch(s) \/ Parse(s) \/ ScrapeStep(s)
    \/ ConcatProfiles
    \/ BarChart
    \/ \E s \in SubjectSet : Resolve(s) \/ Fill(s) \/ Profile(s) \/ Pubs(s)
    \/ CiteStep

Spec == Init /\ [][Next]_vars

\* Everything but one subject's parsed page is as in Blank.
BlankBut(s, page) ==
    /\ raised = FALSE
    /\ html = [Unset(BlankMarkup) EXCEPT ![s] = Markup(page)]
    /\ tree = [Unset(<<>>) EXCEPT ![s] = page]
    /\ text = Unset("")
    /\ title = Unset("")
    /\ email = Unset("")
    /\ areas = Unset(<<>>)
    /\ research = Unset(<<>>)
    /\ interests_list = Unset(<<>>)
    /\ interests = Unset("")
    /\ n_interest_items = Unset(0)
    /\ row = Unset(<<>>)
    /\ scraped_profiles = <<>>
    /\ scraped_profiles_sorted = <<>>
    /\ author = Unset([cites_per_year |-> <<>>])
    /\ ct = Unset(<<>>)
    /\ citation_df = <<>>
    /\ median_cites = <<>>
    /\ outputs = <<>>

\* The first scraping block (lines 131-174) on any text-only page: the
\* state after line 128 has parsed it.
InitText ==
    /\ pc = PosOf("text_join", "matt")
    /\ \E page \in TextPages : BlankBut("matt", page)

NextScrape == \E s \in SubjectSet : ScrapeStep(s)

SpecText == InitText /\ [][NextScrape]_vars

\* The first scraping block on any page of headings, lists and paragraphs.
InitExtract ==
    /\ pc = PosOf("text_join", "matt")
    /\ \E page \in StructPages \cup RunPages : BlankBut("matt", page)

SpecExtract == InitExtract /\ [][NextScrape]_vars

\* The citation steps (lines 437-489) on any four mappings: the state after
\* line 428, with what the citation index returned.
InitCite ==
    /\ pc = PosOf("ct", "matt")
    /\ raised = FALSE
    /\ html = Unset(BlankMarkup)
    /\ tree = Unset(<<>>)
    /\ text = Unset("")
    /\ title = Unset("")
    /\ email = Unset("")
    /\ areas = Unset(<<>>)
    /\ research = Unset(<<>>)
    /\ interests_list = Unset(<<>>)
    /\ interests = Unset("")
    /\ n_interest_items = Unset(0)
    /\ row = Unset(<<>>)
    /\ scraped_profiles = <<>>
    /\ scraped_profiles_sorted = <<>>
    /\ \E l \in EntrySplits :
         \E m1 \in ItemSeqsOf(l[1]), m2 \in ItemSeqsOf(l[2]),
            m3 \in ItemSeqsOf(l[3]), m4 \in ItemSeqsOf(l[4]) :
             author = [s \in SubjectSet |->
                 [cites_per_year |->
                     CASE s = Subjects[1] -> m1
                       [] s = Subjects[2] -> m2
                       [] s = Subjects[3] -> m3
                       [] s = Subjects[4] -> m4]]
    /\ ct = Unset(<<>>)
    /\ citation_df = <<>>
    /\ median_cites = <<>>
    /\ outputs = <<>>

SpecCite == InitCite /\ [][CiteStep]_vars

(***************************************************************************)
(* Properties of the text steps (lines 131-143)                            *)
(***************************************************************************)

\* The first scraping block has run to its end.
MattDone == pc = PosOf("row", "matt") + 1

\* The positions of s that hold a character that is not whitespace, in
\* ascending order.
InkedSeq(s) ==
    SelectSeq([i \in 1..Len(s) |-> i], LAMBDA i : ~IsSpace(Ch(s, i)))

\* What C5 says of a text t normalized from the text raw.
IsNormalized(raw, t) ==
    LET P == InkedSeq(raw)
        Q == InkedSeq(t)
    IN  /\ t = "" \/ (~IsSpace(Ch(t, 1)) /\ ~IsSpace(Ch(t, Len(t))))
        /\ \A i \in 1..Len(t) : IsSpace(Ch(t, i)) => Ch(t, i) = " "
        /\ \A i \in 1..(Len(t) - 1) : ~(Ch(t, i) = " " /\ Ch(t, i + 1) = " ")
        /\ Len(Q) = Len(P)
        /\ \A k \in 1..Len(P) : Ch(t, Q[k]) = Ch(raw, P[k])
        /\ \A k \in 1..(Len(P) - 1) :
             IF P[k + 1] = P[k] + 1
             THEN Q[k + 1] = Q[k] + 1
             ELSE Q[k + 1] = Q[k] + 2

\* C5: the normalization step (line 132) turns the joined text of any
\* page into one with no leading or trailing whitespace, no whitespace
\* character but the single space and no two spaces in a row, that keeps
\* the non-whitespace characters in order, puts exactly one space where
\* the input had a run of whitespace between two of them, and none where
\* it had none.
C5_Normalized ==
    pc = PosOf("text_norm", "matt") + 1 =>
        IsNormalized(Join(" ", BodyText(tree["matt"])), text["matt"])

\* A text with tabs, line breaks and doubled spaces inside and at its ends
\* has been normalized to a non-empty text.
C5_Witness ==
    /\ pc = PosOf("text_norm", "matt") + 1
    /\ Len(tree["matt"]) = 3
    /\ tree["matt"][1].txt = "\t\n "
    /\ tree["matt"][2].txt = "Professor of Things\n"
    /\ tree["matt"][3].txt = "\t\n "
    /\ text["matt"] = "Professor of Things"

\* Whether w is in the language of email_pattern: one or more characters
\* of the class, then the literal domain.
IsEmail(w) ==
    LET d == Len(w) - Len("@psu.edu")
    IN  /\ d >= 1
        /\ SubSeq(w, d + 1, Len(w)) = "@psu.edu"
        /\ \A k \in 1..d : Ch(w, k) \in LocalChars

\* The positions of t where the literal lit occurs.
Occurrences(t, lit) == {p \in 1..Len(t) : StartsWithAt(t, p, lit)}

\* The positions of t where a substring in that language starts.
EmailStarts(t) ==
    LET domains == Occurrences(t, "@psu.edu")
    IN  {i \in 1..Len(t) :
            \E d \in domains :
                i < d /\ \A k \in i..(d - 1) : Ch(t, k) \in LocalChars}

\* C3: the e-mail column is the substring of the normalized text that
\* matches [A-Za-z0-9._%+-]+@psu.edu at the smallest position where one
\* does, and the empty string when none does.
C3_LeftmostEmail ==
    MattDone =>
        LET t == text["matt"]
            e == row["matt"][1].scraped_email
            starts == EmailStarts(t)
        IN  /\ e = email["matt"]
            /\ IF starts = {} THEN e = ""
               ELSE /\ IsEmail(e)
                    /\ StartsWithAt(t, SetMin(starts), e)

\* Two qualifying addresses in the text, the first one extracted.
C3_Witness ==
    /\ MattDone
    /\ Cardinality({i \in 1..Len(text["matt"]) :
                       StartsWithAt(text["matt"], i, "@psu.edu")}) >= 2
    /\ text["matt"] = "m.r+g-19@psu.edu; Professor jane@psu.edu"
    /\ email["matt"] = "m.r+g-19@psu.edu"

AllSpace(t, from, to) == \A k \in from..to : IsSpace(Ch(t, k))

\* The positions j up to p with whitespace alone from j to just before p.
SpaceBefore(t, p) == {j \in 1..p : AllSpace(t, j, p - 1)}

\* Position j, and the positions where a listed honorific that ends just
\* before j starts.
HonorificBefore(t, j) ==
    {j} \cup {j - Len(title_pattern.honorific[a]) :
                a \in {a \in 1..Len(title_pattern.honorific) :
                         StartsWithAt(t, j - Len(title_pattern.honorific[a]),
                                      title_pattern.honorific[a])}}

\* The positions i with t[i..p-1] an optional listed honorific, then any
\* whitespace, then optionally "Associate" and at least one whitespace
\* character.
PrefixStarts(t, p) ==
    LET direct == SpaceBefore(t, p)
        assoc  == {j - Len("Associate") : j \in direct \ {p}}
        ranked == {a \in assoc : StartsWithAt(t, a, "Associate")}
        ends   == direct \cup UNION {SpaceBefore(t, a) : a \in ranked}
    IN  UNION {HonorificBefore(t, j) : j \in ends}

IsTitlePrefix(t, i, p) == i \in PrefixStarts(t, p)

\* The positions of t where a match of the title pattern starts.
TitleStarts(t) ==
    UNION {PrefixStarts(t, p) : p \in Occurrences(t, "Professor")}

\* The match of the title pattern that starts at i: up to its "Professor",
\* then the following characters up to a line break, TitleTailMax at most.
TitleMatchFrom(t, i) ==
    LET p     == CHOOSE q \in Occurrences(t, "Professor") :
                     i <= q /\ IsTitlePrefix(t, i, q)
        last  == p + Len("Professor") - 1
        most  == Min(TitleTailMax, Len(t) - last)
        stops == {k \in 1..most : Ch(t, last + k) \in Newlines}
    IN  SubSeq(t, i, last + (IF stops = {} THEN most ELSE SetMin(stops) - 1))

\* Whether w is m without m's leading and trailing whitespace.
IsTrimOf(w, m) ==
    /\ w = "" \/ (~IsSpace(Ch(w, 1)) /\ ~IsSpace(Ch(w, Len(w))))
    /\ \E a \in 0..(Len(m) - Len(w)) :
         /\ SubSeq(m, a + 1, a + Len(w)) = w
         /\ AllSpace(m, 1, a)
         /\ AllSpace(m, a + Len(w) + 1, Len(m))

\* Whether one of the listed honorifics h stands right before position p
\* of t (whitespace alone between them) without w starting with h.
HonorificLost(t, p, w) ==
    \E a \in 1..Len(title_pattern.honorific) :
        LET h == title_pattern.honorific[a]
        IN  /\ \E k \in 0..(p - 1) :
                 /\ StartsWithAt(t, p - k - Len(h), h)
                 /\ AllSpace(t, p - k, p - 1)
            /\ ~StartsWithAt(w, 1, h)

\* C4: the title column is one match of the title pattern, the leftmost
\* one in the normalized text, without leading or trailing whitespace,
\* however many times "Professor" occurs; it is empty when there is no
\* match; it starts with the listed honorific that directly precedes the
\* first "Professor", if there is one.
C4_LeftmostTitle ==
    MattDone =>
        LET t == text["matt"]
            w == row["matt"][1].scraped_title
            starts == TitleStarts(t)
        IN  /\ w = title["matt"]
            /\ IF starts = {} THEN w = ""
               ELSE /\ IsTrimOf(w, TitleMatchFrom(t, SetMin(starts)))
                    /\ ~HonorificLost(t, SetMin(Occurrences(t, "Professor")), w)

\* "Professor" twice, more than TitleTailMax characters apart, so that the
\* pattern matches twice: the title is the first match alone, cut after
\* TitleTailMax characters and trimmed of the space it ends with.
C4_Witness ==
    /\ MattDone
    /\ Len(tree["matt"]) = 3
    /\ tree["matt"][1].txt = "Professor"
    /\ tree["matt"][2].txt = Filler
    /\ tree["matt"][3].txt = "Professor"
    /\ Cardinality(Occurrences(text["matt"], "Professor")) = 2
    /\ Len(title["matt"]) = Len("Professor") + TitleTailMax - 1
    /\ Cardinality(Occurrences(title["matt"], "Professor")) = 1

(***************************************************************************)
(* Properties of the structural queries (lines 146-174)                    *)
(***************************************************************************)

\* The elements whose normalized text is the label and whose name is one
\* of the given ones.
Labelled(doc, tags, label) ==
    {h \in Nodes(doc) :
        doc[h].tag \in tags /\ NormalizeSpace(StringValue(doc, h)) = label}

\* Whether u is a sibling of h that comes after it.
LaterSibling(doc, h, u) == u > h /\ doc[u].par = doc[h].par

\* The text nodes the Areas of Interest query selects: those under an li
\* child of a ul that is the nearest ul among the later siblings of a
\* level-2 "Areas of Interest" heading.
AreasTextNodes(doc) ==
    LET heads == Labelled(doc, {"h2"}, "Areas of Interest")
        lists == {u \in Nodes(doc) :
                    /\ doc[u].tag = "ul"
                    /\ \E h \in heads :
                         /\ LaterSibling(doc, h, u)
                         /\ \A v \in (h + 1)..(u - 1) :
                              LaterSibling(doc, h, v) => doc[v].tag # "ul"}
        items == {l \in Nodes(doc) : doc[l].tag = "li" /\ doc[l].par \in lists}
    IN  {i \in Nodes(doc) :
            IsText(doc, i) /\ \E l \in items : IsBelow(doc, i, l)}

\* The text nodes the Research Interests query selects: those under the
\* nearest element among the later siblings of a level-2 or level-3
\* "Research Interests" heading.
ResearchTextNodes(doc) ==
    LET heads == Labelled(doc, {"h2", "h3"}, "Research Interests")
        nexts == {e \in Nodes(doc) :
                    /\ ~IsText(doc, e)
                    /\ \E h \in heads :
                         /\ LaterSibling(doc, h, e)
                         /\ \A v \in (h + 1)..(e - 1) :
                              LaterSibling(doc, h, v) => IsText(doc, v)}
    IN  {i \in Nodes(doc) :
            IsText(doc, i) /\ \E e \in nexts : IsBelow(doc, i, e)}

\* Whether list is, in document order, the trimmed text of every node of
\* the set that is not whitespace alone: one entry per such text node.
IsTrimmedTextOf(list, doc, set) ==
    LET at == SelectSeq([i \in 1..Len(doc) |-> i],
                        LAMBDA i : i \in set /\ InkedSeq(doc[i].txt) # <<>>)
    IN  /\ Len(list) = Len(at)
        /\ \A k \in 1..Len(at) :
             list[k] # "" /\ IsTrimOf(list[k], doc[at[k]].txt)

\* Whether the page has a level-2 "Areas of Interest" heading with a ul
\* among its later siblings.
HasAreasList(doc) ==
    \E h \in Labelled(doc, {"h2"}, "Areas of Interest") :
        \E u \in Nodes(doc) : doc[u].tag = "ul" /\ LaterSibling(doc, h, u)

\* C1, as amended: on a page with a level-2 "Areas of Interest" heading
\* and a later sibling ul, the interest list begins with the trimmed,
\* non-empty text nodes under the items of the nearest such ul, in
\* document order, one entry per text node; it holds nothing else when the
\* page has no "Research Interests" heading.
C1_AreasTextNodes ==
    (MattDone /\ HasAreasList(tree["matt"])) =>
        LET list == interests_list["matt"]
            n    == Len(areas["matt"])
        IN  /\ IsTrimmedTextOf(areas["matt"], tree["matt"],
                               AreasTextNodes(tree["matt"]))
            /\ n <= Len(list)
            /\ SubSeq(list, 1, n) = areas["matt"]
            /\ Labelled(tree["matt"], {"h2", "h3"}, "Research Interests") = {}
                   => list = areas["matt"]

\* A list item with nested markup contributes one entry per text node.
C1_Witness ==
    /\ MattDone
    /\ HasAreasList(tree["matt"])
    /\ interests_list["matt"] = <<"Comparative", "Politics", "Methods">>

\* The items of list element u: the trimmed text content of each li child,
\* the empty ones left out.
ItemsOf(doc, u) ==
    LET li == SelectSeq([i \in 1..Len(doc) |-> i],
                        LAMBDA i : doc[i].tag = "li" /\ doc[i].par = u)
    IN  SelectSeq([k \in 1..Len(li) |-> Strip(StringValue(doc, li[k]))],
                  LAMBDA t : t # "")

\* C1 as stated: the interest list of a page with an "Areas of Interest"
\* heading followed by a list is exactly that list's items, one entry per
\* item.  (Read narrowly: one level-2 heading, the list its next sibling
\* element.)
C1_AsStated ==
    MattDone =>
        \A h \in Labelled(tree["matt"], {"h2"}, "Areas of Interest") :
            \A u \in FirstFollowingSibling(tree["matt"], {h}, "*") :
                (/\ tree["matt"][u].tag = "ul"
                 /\ Cardinality(Labelled(tree["matt"], {"h2", "h3"},
                                         "Areas of Interest")) = 1)
                    => interests_list["matt"] = ItemsOf(tree["matt"], u)

\* C10: the interest list is the items of the Areas of Interest query
\* followed by those of the Research Interests query, which are the
\* trimmed, non-empty text nodes under the first element sibling after
\* each level-2 or level-3 "Research Interests" heading, in document
\* order; the count is the length of that list, the sum of the two.
C10_Concatenated ==
    MattDone =>
        LET list == interests_list["matt"]
            a    == Len(areas["matt"])
            r    == Len(research["matt"])
        IN  /\ IsTrimmedTextOf(areas["matt"], tree["matt"],
                               AreasTextNodes(tree["matt"]))
            /\ IsTrimmedTextOf(research["matt"], tree["matt"],
                               ResearchTextNodes(tree["matt"]))
            /\ Len(list) = a + r
            /\ \A k \in 1..a : list[k] = areas["matt"][k]
            /\ \A k \in 1..r : list[a + k] = research["matt"][k]
            /\ n_interest_items["matt"] = a + r
            /\ row["matt"][1].n_interest_items = Len(list)

\* A list both queries reach: its items are listed and counted twice.
C10_Witness ==
    /\ MattDone
    /\ areas["matt"] = <<"Voting", "Elections">>
    /\ research["matt"] = <<"Voting", "Elections">>
    /\ interests_list["matt"] = <<"Voting", "Elections", "Voting", "Elections">>
    /\ n_interest_items["matt"] = 4

\* The columns of a profile row (lines 166-174).
ProfileColumns ==
    {"name", "department", "url", "scraped_title", "scraped_email",
     "scraped_interests", "n_interest_items"}

\* The statements of the first scraping block after the page is parsed.
InMattBlock == pc \in PosOf("text_join", "matt")..PosOf("row", "matt")

\* C2: on any parsed page the extraction raises at none of its statements
\* and yields one row of the seven columns, with an empty title when the
\* title pattern has no match, an empty address when the e-mail pattern has
\* none, and no item from a query whose heading is absent (so a count of 0
\* when both are).
C2_WellFormedRow ==
    /\ InMattBlock => ~raised
    /\ MattDone =>
         LET r == row["matt"]
             t == text["matt"]
             noAreas == Labelled(tree["matt"], {"h2", "h3"},
                                 "Areas of Interest") = {}
             noResearch == Labelled(tree["matt"], {"h2", "h3"},
                                    "Research Interests") = {}
         IN  /\ Len(r) = 1
             /\ DOMAIN r[1] = ProfileColumns
             /\ TitleStarts(t) = {} => r[1].scraped_title = ""
             /\ EmailStarts(t) = {} => r[1].scraped_email = ""
             /\ noAreas => areas["matt"] = <<>>
             /\ noResearch => research["matt"] = <<>>
             /\ (noAreas /\ noResearch) =>
                    r[1].n_interest_items = 0 /\ r[1].scraped_interests = ""

\* A page with no title, no address and neither heading: a full row of
\* empty values.
C2_Witness ==
    /\ MattDone
    /\ tree["matt"] = <<E(0, "p"), T(1, "Game theory")>>
    /\ row["matt"] = <<[name |-> matt_name,
                       department |-> DeptOf("matt"),
                       url |-> UrlOf("matt"),
                       scraped_title |-> "",
                       scraped_email |-> "",
                       scraped_interests |-> "",
                       n_interest_items |-> 0]>>

(***************************************************************************)
(* Properties of the citation tables (lines 437-489)                       *)
(***************************************************************************)

CitationDone == pc > PosOf("concat_ct", "-")

MedianDone == pc > PosOf("median", "-")

\* The place of a subject's name in the order the script lists them.
SubjectIndex(name) ==
    CHOOSE k \in 1..Len(Subjects) : NameOf(Subjects[k]) = name

\* The mapping the citation index returned for a subject.
MappingOf(s) == author[s].cites_per_year

\* The rows of df that carry the subject's name.
RowsOf(df, s) == {k \in 1..Len(df) : df[k].name = NameOf(s)}

RECURSIVE SumOver(_, _)
SumOver(f, set) ==
    IF set = {} THEN 0
    ELSE LET x == CHOOSE x \in set : TRUE
         IN  f[x] + SumOver(f, set \ {x})

\* C6: the combined citation table has as many rows as the four mappings
\* have items together; each subject's rows are exactly its mapping's
\* items, in one block; the blocks come in the order Matt, Sona, Derek,
\* Jeremy; within a block the years ascend.
C6_CitationBlocks ==
    CitationDone =>
        LET df == citation_df
        IN  /\ Len(df) = SumOver([s \in SubjectSet |-> Len(MappingOf(s))],
                                 SubjectSet)
            /\ \A k \in 1..Len(df) : df[k].name \in {NameOf(s) : s \in SubjectSet}
            /\ \A i, j \in 1..Len(df) :
                 i < j =>
                    /\ SubjectIndex(df[i].name) <= SubjectIndex(df[j].name)
                    /\ df[i].name = df[j].name => df[i].year < df[j].year
            /\ \A s \in SubjectSet :
                 /\ Cardinality(RowsOf(df, s)) = Len(MappingOf(s))
                 /\ {<<df[k].year, df[k].cites>> : k \in RowsOf(df, s)}
                        = {MappingOf(s)[k] : k \in 1..Len(MappingOf(s))}

\* Two subjects with counts, one mapping listed out of year order.
C6_Witness ==
    /\ CitationDone
    /\ MappingOf("matt") = <<>>
    /\ MappingOf("sona") = <<<<2021, 4>>, <<2019, 2>>>>
    /\ MappingOf("jeremy") = <<<<2020, 9>>>>
    /\ citation_df = <<[year |-> 2019, cites |-> 2, name |-> sona_name],
                       [year |-> 2021, cites |-> 4, name |-> sona_name],
                       [year |-> 2020, cites |-> 9, name |-> jeremy_name]>>

\* The counts of a mapping, as a function of the item's place.
CountsOf(s) == [k \in 1..Len(MappingOf(s)) |-> MappingOf(s)[k][2]]

\* The k-th smallest of the counts c: the value with fewer than k counts
\* below it and at least k counts not above it.
OrderStatistic(c, k) ==
    CHOOSE v \in {c[i] : i \in DOMAIN c} :
        /\ Cardinality({i \in DOMAIN c : c[i] < v}) < k
        /\ Cardinality({i \in DOMAIN c : c[i] <= v}) >= k

\* Twice the median of the counts c: the middle value of an odd number,
\* the sum of the two middle values of an even number.
TwiceMedian(c) ==
    LET n == Len(c)
    IN  IF n % 2 = 1 THEN 2 * OrderStatistic(c, (n + 1) \div 2)
        ELSE OrderStatistic(c, n \div 2) + OrderStatistic(c, n \div 2 + 1)

\* Whether the median summary has exactly one row for the subject, and it
\* holds the median of the subject's own counts.
HasMedianRow(s) ==
    /\ Cardinality(RowsOf(median_cites, s)) = 1
    /\ \A k \in RowsOf(median_cites, s) :
         median_cites[k].median_cites_x2 = TwiceMedian(CountsOf(s))

\* C7, as amended: the median summary holds one row for every subject
\* with at least one observed year, whose value is the median of that
\* subject's own counts, and no row for a subject with no observed year.
C7_MedianOfObserved ==
    MedianDone =>
        \A s \in SubjectSet :
            IF MappingOf(s) = <<>> THEN RowsOf(median_cites, s) = {}
            ELSE HasMedianRow(s)

\* Counts 4, 2, 9 in insertion order, 2, 9, 4 in year order: median 4, and
\* the three subjects without counts have no row.
C7_Witness ==
    /\ MedianDone
    /\ MappingOf("sona") = <<<<2021, 4>>, <<2019, 2>>, <<2020, 9>>>>
    /\ median_cites = <<[name |-> sona_name, median_cites_x2 |-> 8]>>

\* C7 as stated: every one of the four subjects has one row, holding the
\* median of its own counts when it has any.
C7_AsStated ==
    MedianDone =>
        \A s \in SubjectSet :
            /\ Cardinality(RowsOf(median_cites, s)) = 1
            /\ MappingOf(s) # <<>> => HasMedianRow(s)

(***************************************************************************)
(* Properties of the whole run                                             *)
(***************************************************************************)

ProfilesDone == pc > PosOf("concat_profiles", "-")

BarChartDone == pc > PosOf("barchart", "-")

\* What the extraction steps are to find on each page a run may be served,
\* worked out by hand from the page.
ExpectedOf(page) ==
    CASE page[1] = T(0, "Jane Roe\n") ->
            [title |-> "Distinguished Professor of Things jane@psu.edu "
                       \o "Areas of Interest Voting Elections",
             email |-> "jane@psu.edu",
             interests |-> "Voting; Elections",
             n |-> 2]
      [] page[1] = T(0, "Associate Professor") ->
            [title |-> "Associate Professor sng11@psu.edu "
                       \o "Research Interests Game theory",
             email |-> "sng11@psu.edu",
             interests |-> "Game theory",
             n |-> 1]
      [] page[1] = E(0, "p") ->
            [title |-> "", email |-> "", interests |-> "", n |-> 0]

\* C8: the primary profile table has one row per subject, in the order
\* Matt, Sona, Derek, Jeremy; row i holds subject i's name, department and
\* URL and what subject i's own page yields; the table of the bar chart is
\* a permutation of those rows in ascending order of n_interest_items, and
\* the primary table keeps its order once the sorted one exists.
C8_OwnRows ==
    /\ ProfilesDone =>
         /\ Len(scraped_profiles) = 4
         /\ \A i \in 1..4 :
              LET s == <<"matt", "sona", "derek", "jeremy">>[i]
                  r == scraped_profiles[i]
                  x == ExpectedOf(html[s].body)
              IN  /\ r.name = <<matt_name, sona_name, derek_name,
                                jeremy_name>>[i]
                  /\ r.department = DeptOf(s)
                  /\ r.url = UrlOf(s)
                  /\ r.scraped_title = x.title
                  /\ r.scraped_email = x.email
                  /\ r.scraped_interests = x.interests
                  /\ r.n_interest_items = x.n
    /\ BarChartDone =>
         /\ \E f \in Orderings(4) :
              scraped_profiles_sorted = [i \in 1..4 |-> scraped_profiles[f[i]]]
         /\ \A i \in 1..3 :
              scraped_profiles_sorted[i].n_interest_items
                  <= scraped_profiles_sorted[i + 1].n_interest_items

\* Four pages with counts 2, 1, 0, 2: the sorted table is in another order
\* than the primary one.
C8_Witness ==
    /\ BarChartDone
    /\ [i \in 1..4 |-> scraped_profiles[i].n_interest_items] = <<2, 1, 0, 2>>
    /\ [i \in 1..4 |-> scraped_profiles[i].name]
           = <<matt_name, sona_name, derek_name, jeremy_name>>
    /\ scraped_profiles_sorted[1].name = derek_name
    /\ scraped_profiles_sorted[2].name = sona_name

\* Everything the script prints or plots, in the order of the script.
AllOutputs ==
    <<"scraped_profiles", "barchart",
      "profile matt", "profile sona", "profile derek", "profile jeremy",
      "pubs matt", "pubs sona", "pubs derek", "pubs jeremy",
      "citation_df", "linechart", "median_cites">>

\* The statements that talk to the network or parse its answer.
FailingOps == {"wiki", "fetch", "parse", "resolve", "fill", "pubs"}

\* Nothing of a later step exists before the earlier steps are through.
InOrder ==
    /\ outputs = SubSeq(AllOutputs, 1, Len(outputs))
    /\ \A i \in 1..3 :
         tree[Subjects[i + 1]] # <<>> => row[Subjects[i]] # <<>>
    /\ \A s \in SubjectSet :
         /\ row[s] # <<>> => ~html[s].blank /\ tree[s] = html[s].body
         /\ pc > PosOf("parse", s) => ~html[s].blank /\ tree[s] # <<>>
         /\ scraped_profiles # <<>> => row[s] # <<>>
         /\ ct[s] # <<>> => Len(outputs) >= 10
    /\ outputs # <<>> => scraped_profiles # <<>>
    /\ Len(outputs) >= 2 <=> scraped_profiles_sorted # <<>>
    /\ citation_df # <<>> => Len(outputs) >= 11
    /\ median_cites # <<>> => Len(outputs) = 13

\* A step is taken only while nothing has failed; it either completes the
\* one statement that is next or fails at it, and a failing statement
\* assigns and prints nothing.
OneStep ==
    /\ ~raised
    /\ \/ pc' = pc + 1 /\ ~raised'
       \/ /\ pc' = pc /\ raised'
          /\ Program[pc].op \in FailingOps
          /\ UNCHANGED <<scrapeVars, tableVars, citeVars, outputs>>

\* C9: the run takes its steps in one fixed order, and a failure of a
\* fetch, a parse or a citation-index step ends it there: no later step is
\* taken and no later output is produced.
C9_FatalFailure == []InOrder /\ [][OneStep]_vars

\* Sona's page came back empty: the parse fails after Matt's row was built
\* and before anything was printed.
C9_Witness ==
    /\ raised
    /\ pc = PosOf("parse", "sona")
    /\ html["sona"].blank
    /\ row["matt"] # <<>>
    /\ row["sona"] = <<>>
    /\ outputs = <<>>

(***************************************************************************)
(* The text-node boundaries in the normalized text (lines 131-132)         *)
(***************************************************************************)

TextDone == pc = PosOf("text_norm", "matt") + 1

\* The non-whitespace characters of the text nodes from node k on, in
\* document order, each by its node and its position in the node.
RECURSIVE InkFrom(_, _)
InkFrom(nodes, k) ==
    IF k > Len(nodes) THEN <<>>
    ELSE LET at == InkedSeq(nodes[k])
         IN  [j \in 1..Len(at) |-> [node |-> k, at |-> at[j]]]
             \o InkFrom(nodes, k + 1)

\* Whether a and b are next to each other inside one text node.
AdjacentInNode(a, b) == a.node = b.node /\ b.at = a.at + 1

\* Whether a ends one text node and b begins the next one.
AcrossBoundary(nodes, a, b) ==
    /\ b.node = a.node + 1
    /\ a.at = Len(nodes[a.node])
    /\ b.at = 1

\* Whether t is free of leading and trailing whitespace and holds no
\* whitespace character but the space.
IsTidy(t) ==
    /\ t = "" \/ (~IsSpace(Ch(t, 1)) /\ ~IsSpace(Ch(t, Len(t))))
    /\ \A i \in 1..Len(t) : IsSpace(Ch(t, i)) => Ch(t, i) = " "

\* Whether t holds the non-whitespace characters P of the nodes, in
\* order, two successive ones next to each other when touch says so and
\* one space apart when not.
IsLaidOut(t, nodes, P, touch(_, _)) ==
    LET Q == InkedSeq(t)
    IN  /\ IsTidy(t)
        /\ Len(Q) = Len(P)
        /\ \A k \in 1..Len(P) : Ch(t, Q[k]) = Ch(nodes[P[k].node], P[k].at)
        /\ \A k \in 1..(Len(P) - 1) :
             Q[k + 1] = Q[k] + (IF touch(P[k], P[k + 1]) THEN 1 ELSE 2)

\* C11, as amended: the normalized text is the text nodes under the body
\* in document order with one space put between two adjacent nodes, every
\* whitespace run then collapsed to one space and the ends trimmed; so two
\* non-whitespace characters stay adjacent only inside one text node, and
\* those on either side of a node boundary are one space apart, whether or
\* not the boundary carries whitespace.
C11_SpaceBetweenNodes ==
    TextDone =>
        LET nodes == BodyText(tree["matt"])
        IN  IsLaidOut(text["matt"], nodes, InkFrom(nodes, 1), AdjacentInNode)

\* Two text nodes with no whitespace at their boundary: one space stands
\* between them in the normalized text.
C11_Witness ==
    /\ TextDone
    /\ BodyText(tree["matt"]) = <<"Professor", "jane@psu.edu">>
    /\ text["matt"] = "Professor jane@psu.edu"

\* C11 as stated: no separator comes between two adjacent text nodes, so
\* the non-whitespace characters on either side of a boundary that
\* carries no whitespace stay adjacent.
C11_AsStated ==
    TextDone =>
        LET nodes == BodyText(tree["matt"])
        IN  IsLaidOut(text["matt"], nodes, InkFrom(nodes, 1),
                      LAMBDA a, b : \/ AdjacentInNode(a, b)
                                    \/ AcrossBoundary(nodes, a, b))

====
